---- MODULE Spec2Model ----
(***************************************************************************)
(* marko: a markdown reader (src/main.go).                                 *)
(*                                                                         *)
(* One process run is modelled.  Go strings and byte slices are sequences  *)
(* of one-character strings; command-line arguments are compared only for  *)
(* equality by the program and are kept as TLA+ strings.                   *)
(*                                                                         *)
(* Three specifications share the variables and the actions:               *)
(*   Spec        main/run/parseFlags/getInput up to the call of render()   *)
(*               or openReader();                                          *)
(*   SpecOutput  render(), output() and pager(), from the call of render(); *)
(*   SpecReader  openReader(): page construction, listener, handler,       *)
(*               signal handling and shutdown, with the fairness the Go    *)
(*               scheduler gives runnable goroutines.                      *)
(***************************************************************************)
EXTENDS Integers, Sequences, FiniteSets, TLC

VARIABLES
    pc,           \* control location of the main goroutine
    argv,         \* os.Args[1:]
    stdinPiped,   \* stdinIsPiped()
    termMode,     \* run: termMode
    args,         \* run: args (parseFlags' remaining)
    reads,        \* input sources read so far: subset of {"stdin", "file"}
    readOK,       \* the last read returned no error
    data,         \* bytes returned by the last read
    md,           \* run: md
    err,          \* error returned to main (<<>> is nil)
    rendered,     \* run: rendered
    isTTY,        \* stdoutIsTTY()
    termSize,     \* term.GetSize result: [ok |-> BOOLEAN, h |-> Int]
    pagerEnv,     \* os.Getenv("PAGER")
    pagerRuns,    \* number of pager invocations (calls of pager())
    stdout,       \* writes to standard output, in order
    stderr,       \* lines written to standard error
    exitCode,     \* process exit status, -1 while running
    body,         \* openReader: body
    convertErr,   \* mdParser.Convert returned an error (discarded by the code)
    title,        \* openReader: title
    page,         \* openReader: page
    ln,           \* listener: "none", "open", "closed"
    serving,      \* the goroutine running srv.Serve(ln) exists
    inShutdown,   \* srv.Shutdown has been called
    sigNotify,    \* signal.Notify(sig, os.Interrupt) is in effect
    sigChan,      \* number of signals buffered in sig (capacity 1)
    interrupted,  \* an interrupt signal has been delivered to the process
    conns,        \* connections of the server: [1..MaxConns -> record]
    lastResponse  \* the last response written by the handler, or NoResponse

vars == <<pc, argv, stdinPiped, termMode, args, reads, readOK, data, md, err,
          rendered, isTTY, termSize, pagerEnv, pagerRuns, stdout, stderr,
          exitCode, body, convertErr, title, page, ln, serving, inShutdown,
          sigNotify, sigChan, interrupted, conns, lastResponse>>

cliVars == <<argv, stdinPiped, termMode, args, reads, readOK, data, md>>
termVars == <<rendered, isTTY, termSize, pagerEnv, pagerRuns>>
readerVars == <<body, convertErr, title, page, ln, serving, inShutdown,
                sigNotify, sigChan, interrupted, conns, lastResponse>>

--------------------------------------------------------------------------
(* Bounds *)

MaxArgs == 3        \* length of the argument list
MaxContent == 1     \* length of a file's / stdin's content in Spec
MaxLen == 3         \* length of the markdown in SpecReader
MaxRendered == 3    \* length of the rendered text in SpecOutput
MaxHeight == 2      \* terminal height reported by term.GetSize
MaxPagerLen == 2    \* length of the PAGER environment variable
MaxConns == 1       \* connections accepted during one run

--------------------------------------------------------------------------
(* Strings *)

SeqsUpTo(S, n) == UNION {[1..k -> S] : k \in 0..n}

NL == "\n"

\* strings.Count(s, "\n")
RECURSIVE Count(_, _)
Count(s, c) ==
    IF s = <<>> THEN 0
    ELSE (IF Head(s) = c THEN 1 ELSE 0) + Count(Tail(s), c)

\* strings.HasPrefix
HasPrefix(s, p) == Len(s) >= Len(p) /\ SubSeq(s, 1, Len(p)) = p

\* strings.TrimPrefix
TrimPrefix(s, p) == IF HasPrefix(s, p) THEN SubSeq(s, Len(p) + 1, Len(s)) ELSE s

\* strings.Split(s, "\n"): the pieces between separators; one piece for ""
RECURSIVE Split(_, _)
Split(s, c) ==
    IF \A i \in 1..Len(s) : s[i] # c THEN <<s>>
    ELSE LET i == CHOOSE j \in 1..Len(s) :
                      s[j] = c /\ \A k \in 1..(j - 1) : s[k] # c
         IN <<SubSeq(s, 1, i - 1)>> \o Split(SubSeq(s, i + 1, Len(s)), c)

\* strings.Fields: maximal runs of non-space characters
RECURSIVE Fields(_)
Fields(s) ==
    IF s = <<>> THEN <<>>
    ELSE IF Head(s) = " " THEN Fields(Tail(s))
    ELSE LET n == IF \E j \in 1..Len(s) : s[j] = " "
                  THEN (CHOOSE j \in 1..Len(s) :
                            s[j] = " " /\ \A k \in 1..(j - 1) : s[k] # " ") - 1
                  ELSE Len(s)
         IN <<SubSeq(s, 1, n)>> \o Fields(SubSeq(s, n + 1, Len(s)))

--------------------------------------------------------------------------
(* Program constants and messages *)

version == "0.2.0"
usage == "marko -- a terminal markdown reader ..."

NoErr == <<>>
ErrTooMany == <<"too many arguments (expected 1 file)">>
ErrEmpty(path) == <<path, ": file is empty">>
ErrRead(src) == <<src, ": read error">>
ErrRender == <<"render failed: ", "glamour error">>
ErrListen == <<"failed to start server: ", "listen error">>

Write(by, text) == [by |-> by, text |-> text]
Println(s) == Write("marko", <<s, NL>>)

--------------------------------------------------------------------------
(* Input sets *)

ArgTokens == {"-t", "--term", "--help", "-h", "--version", "-v", "-", "f.md"}
Argv == SeqsUpTo(ArgTokens, MaxArgs)

MdChars == {"#", " ", "a", NL}
Contents == SeqsUpTo(MdChars, MaxContent)

--------------------------------------------------------------------------
(* Input resolver and mode selector *)

\* parseFlags: -t / --term set termMode, everything else is kept in order
RECURSIVE parseFlags(_)
parseFlags(a) ==
    IF a = <<>> THEN [termMode |-> FALSE, remaining |-> <<>>]
    ELSE LET rest == parseFlags(Tail(a))
         IN IF Head(a) \in {"-t", "--term"}
            THEN [termMode |-> TRUE, remaining |-> rest.remaining]
            ELSE [termMode |-> rest.termMode,
                  remaining |-> <<Head(a)>> \o rest.remaining]

\* getInput with the argument count no longer checked
getInputCase_NoCount(a, piped) ==
    IF Len(a) = 0 THEN (IF piped THEN "stdin" ELSE "usage")
    ELSE IF a[1] \in {"--help", "-h"} THEN "usage"
    ELSE IF a[1] \in {"--version", "-v"} THEN "version"
    ELSE IF a[1] = "-" THEN "stdin"
    ELSE "file"

\* getInput with the argument count checked before the first argument
getInputCase_CountFirst(a, piped) ==
    IF Len(a) = 0 THEN (IF piped THEN "stdin" ELSE "usage")
    ELSE IF Len(a) > 1 THEN "tooMany"
    ELSE IF a[1] \in {"--help", "-h"} THEN "usage"
    ELSE IF a[1] \in {"--version", "-v"} THEN "version"
    ELSE IF a[1] = "-" THEN "stdin"
    ELSE "file"

\* getInput, lines 85-106: which branch the argument list selects
getInputCase(a, piped) ==
    IF Len(a) = 0 THEN (IF piped THEN "stdin" ELSE "usage")
    ELSE IF a[1] \in {"--help", "-h"} THEN "usage"
    ELSE IF a[1] \in {"--version", "-v"} THEN "version"
    ELSE IF a[1] = "-" THEN "stdin"
    ELSE IF Len(a) > 1 THEN "tooMany"
    ELSE "file"

\* getInput with the length of the file's bytes not checked
checkData_NoCheck(path, d) == NoErr

\* getInput, lines 114-118: the check made on a file's bytes
checkData(path, d) == IF Len(d) = 0 THEN ErrEmpty(path) ELSE NoErr

\* os.Exit(code)
Exit(code) == /\ pc' = "exited"
              /\ exitCode' = code

\* run, lines 54-59 and 69: md is handed to render or to openReader
HandOver(d) == /\ md' = d
               /\ pc' = IF termMode THEN "render" ELSE "openReader"
               /\ UNCHANGED <<err, exitCode>>

\* run, lines 55-57: an error of getInput is returned to main
Fail(e) == /\ err' = e
           /\ pc' = "runReturn"
           /\ UNCHANGED <<md, exitCode>>

\* run, line 52
ParseFlags ==
    /\ pc = "main"
    /\ termMode' = parseFlags(argv).termMode
    /\ args' = parseFlags(argv).remaining
    /\ pc' = "getInput"
    /\ UNCHANGED <<argv, stdinPiped, reads, readOK, data, md, err, stdout,
                   stderr, exitCode>>
    /\ UNCHANGED <<termVars, readerVars>>

\* getInput, called at run line 54, with the reads it makes
GetInput ==
    /\ pc = "getInput"
    /\ LET c == getInputCase(args, stdinPiped) IN
         \/ /\ c = "usage"
            /\ stdout' = Append(stdout, Println(usage))
            /\ Exit(0)
            /\ UNCHANGED <<reads, readOK, data, md, err>>
         \/ /\ c = "version"
            /\ stdout' = Append(stdout, Write("marko", <<"marko ", version, NL>>))
            /\ Exit(0)
            /\ UNCHANGED <<reads, readOK, data, md, err>>
         \/ /\ c = "stdin"               \* io.ReadAll(os.Stdin)
            /\ reads' = reads \cup {"stdin"}
            /\ \E ok \in BOOLEAN, d \in Contents :
                 /\ readOK' = ok
                 /\ data' = d
                 /\ IF ok THEN HandOver(d) ELSE Fail(ErrRead("stdin"))
            /\ UNCHANGED stdout
         \/ /\ c = "tooMany"
            /\ Fail(ErrTooMany)
            /\ UNCHANGED <<reads, readOK, data, stdout>>
         \/ /\ c = "file"                \* os.ReadFile(path)
            /\ reads' = reads \cup {"file"}
            /\ \E ok \in BOOLEAN, d \in Contents :
                 /\ readOK' = ok
                 /\ data' = IF ok THEN d ELSE <<>>
                 /\ IF ~ok THEN Fail(ErrRead(args[1]))
                    ELSE IF checkData(args[1], d) # NoErr
                         THEN Fail(checkData(args[1], d))
                         ELSE HandOver(d)
            /\ UNCHANGED stdout
    /\ UNCHANGED <<argv, stdinPiped, termMode, args, stderr>>
    /\ UNCHANGED <<termVars, readerVars>>

\* main, lines 44-49
Main ==
    /\ pc = "runReturn"
    /\ IF err # NoErr
       THEN /\ stderr' = Append(stderr, <<"marko: ">> \o err \o <<NL>>)
            /\ Exit(1)
       ELSE /\ Exit(0)
            /\ UNCHANGED stderr
    /\ UNCHANGED <<cliVars, err, stdout>>
    /\ UNCHANGED <<termVars, readerVars>>

--------------------------------------------------------------------------
(* Initial values shared by the specifications *)

NoResponse == [path |-> "", page |-> <<>>, sent |-> FALSE]
NoConn == [st |-> "none", path |-> ""]

InitTerm ==
    /\ rendered = <<>>
    /\ isTTY = FALSE
    /\ termSize = [ok |-> FALSE, h |-> 0]
    /\ pagerEnv = <<>>
    /\ pagerRuns = 0

InitReaderVars ==
    /\ body = <<>>
    /\ convertErr = FALSE
    /\ title = <<>>
    /\ page = <<>>
    /\ ln = "none"
    /\ serving = FALSE
    /\ inShutdown = FALSE
    /\ sigNotify = FALSE
    /\ sigChan = 0
    /\ interrupted = FALSE
    /\ conns = [c \in 1..MaxConns |-> NoConn]
    /\ lastResponse = NoResponse

InitOut ==
    /\ err = NoErr
    /\ stdout = <<>>
    /\ stderr = <<>>
    /\ exitCode = -1

\* the process as started by the operating system
Init ==
    /\ pc = "main"
    /\ argv \in Argv
    /\ stdinPiped \in BOOLEAN
    /\ termMode = FALSE
    /\ args = <<>>
    /\ reads = {}
    /\ readOK = FALSE
    /\ data = <<>>
    /\ md = <<>>
    /\ InitOut
    /\ InitTerm
    /\ InitReaderVars

Next == ParseFlags \/ GetInput \/ Main

Spec == Init /\ [][Next]_vars

--------------------------------------------------------------------------
(* Terminal renderer: render, output, pager *)

DefaultHeight == 24
DefaultPager == <<"l", "e", "s", "s", " ", "-", "r">>

Rendered == SeqsUpTo({"a", NL}, MaxRendered)
TermSizes == {[ok |-> FALSE, h |-> 0]} \cup {[ok |-> TRUE, h |-> h] : h \in 0..MaxHeight}
PagerEnvs == SeqsUpTo({" ", "x"}, MaxPagerLen)
TermInputs == {<<>>, <<"a">>}

\* terminalHeight
terminalHeight(sz) == IF ~sz.ok \/ sz.h <= 0 THEN DefaultHeight ELSE sz.h

\* output with the terminal check left out
outputPath_NoTTYCheck(tty, lines, height) ==
    IF lines <= height THEN "direct" ELSE "pager"

\* output, lines 136-148: where the rendered text goes
outputPath(tty, lines, height) ==
    IF ~tty THEN "direct"
    ELSE IF lines <= height THEN "direct"
    ELSE "pager"

\* pager, lines 155-160: the command line of the pager
pagerParts(env) == Fields(IF env = <<>> THEN DefaultPager ELSE env)

\* run, lines 60-64, and render: glamour's rendering is opaque, any text or
\* an error
Render ==
    /\ pc = "render"
    /\ \/ \E r \in Rendered :
            /\ rendered' = r
            /\ pc' = "output"
            /\ UNCHANGED err
       \/ /\ err' = ErrRender
          /\ pc' = "runReturn"
          /\ UNCHANGED rendered
    /\ UNCHANGED <<cliVars, isTTY, termSize, pagerEnv, pagerRuns, stdout,
                   stderr, exitCode>>
    /\ UNCHANGED readerVars

\* output, lines 135-148; run returns nil after output returns
Output ==
    /\ pc = "output"
    /\ LET p == outputPath(isTTY, Count(rendered, NL), terminalHeight(termSize)) IN
         IF p = "direct"
         THEN /\ stdout' = Append(stdout, Write("marko", rendered))
              /\ pc' = "runReturn"
         ELSE /\ pc' = "pager"
              /\ UNCHANGED stdout
    /\ UNCHANGED <<cliVars, termVars, err, stderr, exitCode>>
    /\ UNCHANGED readerVars

\* pager, lines 154-167: parts[0] of an empty field list is an index out of
\* range, a run-time panic (exit status 2); otherwise the child fails to
\* start, runs and fails after writing some of the text, or succeeds
Pager ==
    /\ pc = "pager"
    /\ pagerRuns' = pagerRuns + 1
    /\ IF pagerParts(pagerEnv) = <<>>
       THEN /\ stderr' = Append(stderr, <<"panic: runtime error: index out of range">>)
            /\ Exit(2)
            /\ UNCHANGED stdout
       ELSE /\ \/ /\ pc' = "pagerFailed"
                  /\ UNCHANGED stdout
               \/ /\ pc' = "pagerFailed"
                  /\ \E k \in 0..Len(rendered) :
                       stdout' = Append(stdout, Write("pager", SubSeq(rendered, 1, k)))
               \/ /\ pc' = "runReturn"
                  /\ stdout' = Append(stdout, Write("pager", rendered))
            /\ UNCHANGED <<stderr, exitCode>>
    /\ UNCHANGED <<cliVars, rendered, isTTY, termSize, pagerEnv, err>>
    /\ UNCHANGED readerVars

\* output, lines 149-151: the fallback after a pager error
PagerFallback ==
    /\ pc = "pagerFailed"
    /\ stdout' = Append(stdout, Write("marko", rendered))
    /\ pc' = "runReturn"
    /\ UNCHANGED <<cliVars, termVars, err, stderr, exitCode>>
    /\ UNCHANGED readerVars

\* the state at run line 60, terminal mode, with the environment of the run
InitOutput ==
    /\ pc = "render"
    /\ argv = <<"-t", "-">>
    /\ stdinPiped = FALSE
    /\ termMode = TRUE
    /\ args = <<"-">>
    /\ reads = {"stdin"}
    /\ readOK = TRUE
    /\ md \in TermInputs
    /\ data = md
    /\ InitOut
    /\ rendered = <<>>
    /\ isTTY \in BOOLEAN
    /\ termSize \in TermSizes
    /\ pagerEnv \in PagerEnvs
    /\ pagerRuns = 0
    /\ InitReaderVars

NextOutput == Render \/ Output \/ Pager \/ PagerFallback \/ Main

SpecOutput == InitOutput /\ [][NextOutput]_vars

--------------------------------------------------------------------------
(* Browser reader: page construction *)

DefaultTitle == <<"m", "a", "r", "k", "o", " ", "r", "e", "a", "d", "e", "r">>
HeadingPrefix == <<"#", " ">>

\* extractTitle returning the last heading line instead of the first
extractTitle_LastHeading(m) ==
    LET lines == Split(m, NL)
        hs == {i \in 1..Len(lines) : HasPrefix(lines[i], HeadingPrefix)}
    IN IF hs = {} THEN DefaultTitle
       ELSE TrimPrefix(lines[CHOOSE i \in hs : \A j \in hs : i >= j], HeadingPrefix)

\* extractTitle: the first line with the prefix "# ", without the prefix
extractTitle(m) ==
    LET lines == Split(m, NL)
        hs == {i \in 1..Len(lines) : HasPrefix(lines[i], HeadingPrefix)}
    IN IF hs = {} THEN DefaultTitle
       ELSE TrimPrefix(lines[CHOOSE i \in hs : \A j \in hs : i <= j], HeadingPrefix)

\* readerPage: the fixed template around the title and the content; the
\* template's pieces are single tokens
readerPage(t, content) ==
    <<"<head>", "<title>">> \o t \o <<"</title>", "<style/>", "</head>", "<article>">>
        \o content \o <<"</article>">>

\* renderHTML: goldmark's conversion is opaque; Convert returns an error or
\* not, and the buffer holds what was written
ConvertOutcomes == {[failed |-> FALSE, html |-> <<"<p>", "</p>">>],
                    [failed |-> TRUE, html |-> <<>>]}

Paths == {"/", "/x"}

\* openReader line 172 and renderHTML: the error of Convert is dropped
RenderHTML ==
    /\ pc = "openReader"
    /\ \E out \in ConvertOutcomes :
          /\ body' = out.html
          /\ convertErr' = out.failed
    /\ pc' = "extractTitle"
    /\ UNCHANGED <<cliVars, termVars, err, stdout, stderr, exitCode>>
    /\ UNCHANGED <<title, page, ln, serving, inShutdown, sigNotify, sigChan,
                   interrupted, conns, lastResponse>>

\* openReader line 173
ExtractTitle ==
    /\ pc = "extractTitle"
    /\ title' = extractTitle(md)
    /\ pc' = "readerPage"
    /\ UNCHANGED <<cliVars, termVars, err, stdout, stderr, exitCode>>
    /\ UNCHANGED <<body, convertErr, page, ln, serving, inShutdown, sigNotify,
                   sigChan, interrupted, conns, lastResponse>>

\* openReader line 174
ReaderPage ==
    /\ pc = "readerPage"
    /\ page' = readerPage(title, body)
    /\ pc' = "listen"
    /\ UNCHANGED <<cliVars, termVars, err, stdout, stderr, exitCode>>
    /\ UNCHANGED <<body, convertErr, title, ln, serving, inShutdown, sigNotify,
                   sigChan, interrupted, conns, lastResponse>>

\* openReader lines 176-179: a bind failure is returned to main
Listen ==
    /\ pc = "listen"
    /\ \/ /\ ln' = "open"
          /\ pc' = "goServe"
          /\ UNCHANGED err
       \/ /\ err' = ErrListen
          /\ pc' = "runReturn"
          /\ UNCHANGED ln
    /\ UNCHANGED <<cliVars, termVars, stdout, stderr, exitCode>>
    /\ UNCHANGED <<body, convertErr, title, page, serving, inShutdown,
                   sigNotify, sigChan, interrupted, conns, lastResponse>>

\* openReader lines 181-189: the server is built and srv.Serve(ln) started
\* on its own goroutine
GoServe ==
    /\ pc = "goServe"
    /\ serving' = TRUE
    /\ pc' = "printURL"
    /\ UNCHANGED <<cliVars, termVars, err, stdout, stderr, exitCode>>
    /\ UNCHANGED <<body, convertErr, title, page, ln, inShutdown, sigNotify,
                   sigChan, interrupted, conns, lastResponse>>

--------------------------------------------------------------------------
(* Browser reader: the server's goroutines and its clients *)

Alive == exitCode = -1

SetConn(c, r) == conns' = [conns EXCEPT ![c] = r]

serverVars == <<body, convertErr, title, page, ln, serving, inShutdown,
                sigNotify, sigChan, interrupted>>

\* srv.Serve: the accept loop takes a new connection (slots in order)
Accept(c) ==
    /\ Alive /\ serving /\ ln = "open"
    /\ conns[c].st = "none"
    /\ \A d \in 1..(c - 1) : conns[d].st # "none"
    /\ SetConn(c, [st |-> "new", path |-> ""])
    /\ UNCHANGED <<pc, cliVars, termVars, err, stdout, stderr, exitCode>>
    /\ UNCHANGED <<serverVars, lastResponse>>

\* a request for a path has been read on a new or idle connection
ReadRequest(c, p) ==
    /\ Alive
    /\ conns[c].st \in {"new", "idle"}
    /\ SetConn(c, [st |-> "active", path |-> p])
    /\ UNCHANGED <<pc, cliVars, termVars, err, stdout, stderr, exitCode>>
    /\ UNCHANGED <<serverVars, lastResponse>>

\* the handler, lines 183-186: the page, whatever the request; afterwards the
\* connection is idle, or closed when the server is shutting down
Handler(c) ==
    /\ Alive
    /\ conns[c].st = "active"
    /\ lastResponse' = [path |-> conns[c].path, page |-> page, sent |-> TRUE]
    /\ SetConn(c, [st |-> IF inShutdown THEN "closed" ELSE "idle", path |-> ""])
    /\ UNCHANGED <<pc, cliVars, termVars, err, stdout, stderr, exitCode>>
    /\ UNCHANGED serverVars

\* the client stops reading: the handler's write blocks (no write timeout)
WriteBlocks(c) ==
    /\ Alive
    /\ conns[c].st = "active"
    /\ SetConn(c, [conns[c] EXCEPT !.st = "blocked"])
    /\ UNCHANGED <<pc, cliVars, termVars, err, stdout, stderr, exitCode>>
    /\ UNCHANGED <<serverVars, lastResponse>>

\* the client reads again: the handler's write goes on
ClientReads(c) ==
    /\ Alive
    /\ conns[c].st = "blocked"
    /\ SetConn(c, [conns[c] EXCEPT !.st = "active"])
    /\ UNCHANGED <<pc, cliVars, termVars, err, stdout, stderr, exitCode>>
    /\ UNCHANGED <<serverVars, lastResponse>>

\* the client closes its connection
ClientClose(c) ==
    /\ Alive
    /\ conns[c].st \in {"new", "idle", "blocked"}
    /\ SetConn(c, [st |-> "closed", path |-> ""])
    /\ UNCHANGED <<pc, cliVars, termVars, err, stdout, stderr, exitCode>>
    /\ UNCHANGED <<serverVars, lastResponse>>

--------------------------------------------------------------------------
(* Browser reader: the main goroutine after go srv.Serve(ln) *)

\* openReader line 191
PrintURL ==
    /\ pc = "printURL"
    /\ stdout' = Append(stdout, Println("Reader opened at http://127.0.0.1:port"))
    /\ pc' = "openBrowser"
    /\ UNCHANGED <<cliVars, termVars, err, stderr, exitCode>>
    /\ UNCHANGED readerVars

\* openReader line 192 and openBrowser: the command is started and not
\* waited for; an error of Start is dropped
OpenBrowser ==
    /\ pc = "openBrowser"
    /\ pc' = "notify"
    /\ UNCHANGED <<cliVars, termVars, err, stdout, stderr, exitCode>>
    /\ UNCHANGED readerVars

\* openReader lines 194-195
Notify ==
    /\ pc = "notify"
    /\ sigNotify' = TRUE
    /\ pc' = "waitSig"
    /\ UNCHANGED <<cliVars, termVars, err, stdout, stderr, exitCode>>
    /\ UNCHANGED <<body, convertErr, title, page, ln, serving, inShutdown,
                   sigChan, interrupted, conns, lastResponse>>

\* openReader line 196
RecvSig ==
    /\ pc = "waitSig"
    /\ sigChan > 0
    /\ sigChan' = sigChan - 1
    /\ pc' = "closing"
    /\ UNCHANGED <<cliVars, termVars, err, stdout, stderr, exitCode>>
    /\ UNCHANGED <<body, convertErr, title, page, ln, serving, inShutdown,
                   sigNotify, interrupted, conns, lastResponse>>

\* openReader line 198
PrintClosing ==
    /\ pc = "closing"
    /\ stdout' = Append(stdout, Println("\nClosing reader..."))
    /\ pc' = "shutdown"
    /\ UNCHANGED <<cliVars, termVars, err, stderr, exitCode>>
    /\ UNCHANGED readerVars

\* openReader line 199, srv.Shutdown: the server is marked as shutting down
\* and its listener closed
ShutdownBegin ==
    /\ pc = "shutdown"
    /\ inShutdown' = TRUE
    /\ ln' = "closed"
    /\ pc' = "shutdownWait"
    /\ UNCHANGED <<cliVars, termVars, err, stdout, stderr, exitCode>>
    /\ UNCHANGED <<body, convertErr, title, page, serving, sigNotify, sigChan,
                   interrupted, conns, lastResponse>>

\* a connection Shutdown may close: not serving a request
Quiet(r) == r.st \notin {"active", "blocked"}

\* openReader line 199, srv.Shutdown(context.Background()): idle connections
\* (and new ones on which no request has arrived in time) are closed; Shutdown
\* returns once no connection serves a request, and the context never ends
\* the wait
ShutdownPoll ==
    /\ pc = "shutdownWait"
    /\ conns' = [c \in 1..MaxConns |->
                    IF conns[c].st \in {"new", "idle"}
                    THEN [st |-> "closed", path |-> ""] ELSE conns[c]]
    /\ pc' = IF \A c \in 1..MaxConns : Quiet(conns[c]) THEN "runReturn"
             ELSE "shutdownWait"
    /\ UNCHANGED <<cliVars, termVars, err, stdout, stderr, exitCode>>
    /\ UNCHANGED <<serverVars, lastResponse>>

\* an interrupt signal reaches the process: with signal.Notify in effect it
\* is put in sig unless sig is full; before that the Go runtime's default
\* action ends the process
Interrupt ==
    /\ Alive
    /\ interrupted' = TRUE
    /\ IF sigNotify
       THEN /\ sigChan' = 1
            /\ UNCHANGED <<pc, exitCode>>
       ELSE /\ Exit(130)
            /\ UNCHANGED sigChan
    /\ UNCHANGED <<cliVars, termVars, err, stdout, stderr>>
    /\ UNCHANGED <<body, convertErr, title, page, ln, serving, inShutdown,
                   sigNotify, conns, lastResponse>>

--------------------------------------------------------------------------
(* Browser reader: specifications *)

RECURSIVE Join(_)
Join(ls) ==
    IF Len(ls) = 0 THEN <<>>
    ELSE IF Len(ls) = 1 THEN ls[1]
    ELSE ls[1] \o <<NL>> \o Join(Tail(ls))

DocLines == {<<>>, <<"a">>, <<"#", "a">>, <<"#", " ", "a">>, <<"#", " ">> \o DefaultTitle}
Docs == {Join(ls) : ls \in [1..2 -> DocLines]}
Markdown == SeqsUpTo(MdChars, MaxLen) \cup Docs

\* the state at run line 69, browser mode
InitAtReader(inputs) ==
    /\ pc = "openReader"
    /\ argv = <<"-">>
    /\ stdinPiped = FALSE
    /\ termMode = FALSE
    /\ args = <<"-">>
    /\ reads = {"stdin"}
    /\ readOK = TRUE
    /\ md \in inputs
    /\ data = md
    /\ InitOut
    /\ InitTerm
    /\ InitReaderVars

InitReader == InitAtReader(Markdown)

PageSteps == RenderHTML \/ ExtractTitle \/ ReaderPage \/ Listen \/ GoServe

ServerSteps ==
    \/ \E c \in 1..MaxConns : Accept(c)
    \/ \E c \in 1..MaxConns, p \in Paths : ReadRequest(c, p)
    \/ \E c \in 1..MaxConns : Handler(c)

ClientSteps ==
    \/ \E c \in 1..MaxConns : WriteBlocks(c)
    \/ \E c \in 1..MaxConns : ClientReads(c)
    \/ \E c \in 1..MaxConns : ClientClose(c)

WaitSteps == PrintURL \/ OpenBrowser \/ Notify \/ RecvSig

ShutdownSteps == PrintClosing \/ ShutdownBegin \/ ShutdownPoll

NextReader ==
    PageSteps \/ ServerSteps \/ ClientSteps \/ WaitSteps \/ ShutdownSteps
        \/ Interrupt \/ Main

\* the Go scheduler runs every runnable goroutine: the main goroutine's next
\* statement and a handler whose write is not blocked are eventually executed;
\* clients and signals are under no obligation
Fairness ==
    /\ WF_vars(PageSteps)
    /\ WF_vars(WaitSteps)
    /\ WF_vars(ShutdownSteps)
    /\ WF_vars(Main)
    /\ \A c \in 1..MaxConns : WF_vars(Handler(c))

SpecReader == InitReader /\ [][NextReader]_vars /\ Fairness

--------------------------------------------------------------------------
(* Properties *)

HelpVersion == {"--help", "-h", "--version", "-v"}
Parsed == pc \notin {"main", "getInput"}
Lines == Count(rendered, NL)
Height == terminalHeight(termSize)
ErrLine(e) == <<"marko: ">> \o e \o <<NL>>

\* C1: when the rendered text has more lines than the terminal is high, the
\* pager is invoked, and whatever the pager does (whatever PAGER holds) the
\* rendered text is written to standard output and the run ends with status 0.
C1_PagerFailureStillPrints ==
    (pc = "exited" /\ isTTY /\ Lines > Height) =>
        /\ pagerRuns = 1
        /\ exitCode = 0
        /\ \E i \in 1..Len(stdout) : stdout[i].text = rendered

\* C2: once the interrupt has been received on the signal channel, the
\* process eventually exits, whatever the connections are doing.
C2_InterruptReachesStopped ==
    (sigChan > 0 \/ pc \in {"closing", "shutdown", "shutdownWait"}) ~> (pc = "exited")

\* C3: the bytes handed to render or openReader are never empty.
C3_InputNonEmpty ==
    pc \in {"render", "openReader"} => md # <<>>

TooManyOutcome ==
    /\ pc \in {"runReturn", "exited"}
    /\ err = ErrTooMany
    /\ reads = {}
    /\ stdout = <<>>
    /\ pc = "exited" => (exitCode = 1 /\ stderr = <<ErrLine(ErrTooMany)>>)

\* C4 as stated: more than one positional argument, the first of them no
\* help/version flag, always ends with the too-many-arguments error, exit 1,
\* nothing read and nothing rendered.
C4_TooManyAlways ==
    (Parsed /\ Len(args) > 1 /\ args[1] \notin HelpVersion) => TooManyOutcome

\* C4 as amended: the same, when the first positional argument is neither a
\* help/version flag nor "-".
C4_TooManyFiles ==
    (Parsed /\ Len(args) > 1 /\ args[1] \notin HelpVersion \cup {"-"})
        => TooManyOutcome

C4_Witness ==
    /\ pc = "exited" /\ exitCode = 1
    /\ termMode /\ args = <<"f.md", "f.md">>
    /\ stderr = <<ErrLine(ErrTooMany)>>

\* C5: a render failure, like every other error, is surfaced: no page is
\* served after it, and the run ends with `marko: <message>` and status 1.
C5_ErrorsSurfaced ==
    /\ convertErr => (~serving /\ ~lastResponse.sent)
    /\ (pc = "exited" /\ ~interrupted /\ (convertErr \/ err # NoErr))
          => (exitCode = 1 /\ Len(stderr) = 1)

\* C6: the pager is invoked only when standard output is a terminal and the
\* rendered text has more lines than the terminal is high; otherwise the
\* rendered text is written to standard output once, unchanged, and no pager
\* is invoked.
C6_PagerOnlyWhenOverflowingTTY ==
    /\ pagerRuns > 0 => (isTTY /\ Lines > Height)
    /\ pc = "pager" => (isTTY /\ Lines > Height)
    /\ (pc \in {"runReturn", "exited"} /\ err = NoErr /\ (~isTTY \/ Lines <= Height))
          => (stdout = <<Write("marko", rendered)>> /\ pagerRuns = 0)

C6_Witness ==
    /\ pc = "exited" /\ exitCode = 0
    /\ ~isTTY /\ termSize.ok /\ Lines > Height
    /\ stdout = <<Write("marko", rendered)>>

\* C7: when the first positional argument is a help or version flag, the run
\* prints the usage or version text and exits 0, whatever follows, with
\* nothing read, nothing rendered and no error.
C7_HelpVersionFirst ==
    (Parsed /\ Len(args) >= 1 /\ args[1] \in HelpVersion) =>
        /\ pc = "exited" /\ exitCode = 0
        /\ reads = {} /\ err = NoErr /\ stderr = <<>>
        /\ stdout = <<IF args[1] \in {"--help", "-h"} THEN Println(usage)
                      ELSE Write("marko", <<"marko ", version, NL>>)>>

C7_Witness ==
    /\ pc = "exited" /\ exitCode = 0
    /\ argv = <<"-t", "--version", "f.md">>
    /\ stdout = <<Write("marko", <<"marko ", version, NL>>)>>

\* C8: a file argument naming a readable file of zero bytes ends the run, in
\* either mode, with "<path>: file is empty" and status 1; neither render nor
\* openReader is reached.
C8_EmptyFile ==
    (Parsed /\ "file" \in reads /\ readOK /\ data = <<>>) =>
        /\ pc \in {"runReturn", "exited"}
        /\ err = ErrEmpty(args[1])
        /\ stdout = <<>>
        /\ pc = "exited" => (exitCode = 1 /\ stderr = <<ErrLine(ErrEmpty(args[1]))>>)

C8_Witness ==
    /\ pc = "exited" /\ exitCode = 1
    /\ ~termMode /\ args = <<"f.md">> /\ "file" \in reads /\ readOK /\ data = <<>>
    /\ stderr = <<ErrLine(<<"f.md", ": file is empty">>)>>

\* the heading lines of a text, read character by character: a position that
\* starts a line and holds "# "
HeadingAt(m, p) ==
    /\ p = 1 \/ m[p - 1] = NL
    /\ p + 1 <= Len(m)
    /\ m[p] = "#" /\ m[p + 1] = " "

Headings(m) == {p \in 1..Len(m) : HeadingAt(m, p)}

LineEnd(m, p) ==
    LET nls == {q \in p..Len(m) : m[q] = NL}
    IN IF nls = {} THEN Len(m) ELSE (CHOOSE q \in nls : \A r \in nls : q <= r) - 1

FirstHeadingText(m) ==
    LET p == CHOOSE q \in Headings(m) : \A r \in Headings(m) : q <= r
    IN SubSeq(m, p + 2, LineEnd(m, p))

\* the content of the <title> element of a page
PageTitle(pg) ==
    LET i == CHOOSE k \in 1..Len(pg) : pg[k] = "<title>" /\ \A l \in 1..(k - 1) : pg[l] # "<title>"
        j == CHOOSE k \in 1..Len(pg) : pg[k] = "</title>" /\ \A l \in 1..(k - 1) : pg[l] # "</title>"
    IN SubSeq(pg, i + 1, j - 1)

ExpectedTitle(m) == IF Headings(m) = {} THEN DefaultTitle ELSE FirstHeadingText(m)

TitleOfFirstHeading ==
    /\ pc = "readerPage" => title = ExpectedTitle(md)
    /\ page # <<>> => PageTitle(page) = ExpectedTitle(md)
    /\ lastResponse.sent => (page # <<>> /\ lastResponse.page = page)

\* C9 as stated: the title of the served page is the text after "# " on the
\* first line starting with "# ", and it is the default title exactly when no
\* line starts with "# "; every request path is answered with that page.
C9_TitleDefaultExactly ==
    /\ TitleOfFirstHeading
    /\ page # <<>> => (PageTitle(page) = DefaultTitle <=> Headings(md) = {})

\* C9 as amended: the title of the served page is the text after "# " on the
\* first line starting with "# ", and the default title when no line starts
\* with "# " (the heading text may itself be the default title); every request
\* path is answered with that page.
C9_TitleFirstHeading == TitleOfFirstHeading

C9_Witness ==
    /\ lastResponse.sent /\ lastResponse.path = "/x"
    /\ Cardinality(Headings(md)) = 2
    /\ title = <<"a">>
    /\ PageTitle(lastResponse.page) = <<"a">>

\* C10: once the listener is served, an interrupt never ends the process
\* without srv.Shutdown having been called.
C10_InterruptShutsDown ==
    (pc = "exited" /\ serving /\ interrupted) => inShutdown

====
